---- MODULE Spec2Model ----
(***************************************************************************)
(* twiboot-flasher: the Intel HEX parser (file_ops.rs), the retrying I2C   *)
(* transport (i2c.rs), the bootloader protocol (protocol.rs) and the run   *)
(* of the tool (main.rs).                                                  *)
(*                                                                         *)
(* Bytes are integers 0..255, text is a sequence of one-character strings. *)
(* A Vec<u8> image is kept sparsely: its length, the bytes stored          *)
(* explicitly, and the rule giving every other byte.                       *)
(***************************************************************************)
EXTENDS Integers, Sequences, FiniteSets, TLC

VARIABLES
    \* ---- the run of the tool (main.rs, protocol.rs, i2c.rs)
    pc,         \* call site of the pending endpoint operation, or where main stopped
    phase,      \* "write" | "read" | "none": which endpoint call is pending
    retries,    \* write_with_retry: local `retries`
    cmd,        \* bytes of the command being written / last written
    rdlen,      \* length of the read buffer of the pending write_then_read
    pos,        \* write_flash / verify_flash: local `pos`
    pagesize,   \* TwiBootloader.pagesize
    flashsize,  \* TwiBootloader.flashsize
    data,       \* main: the loaded image (NoImage before it is loaded)
    outcome,    \* how main ended: "running", "ok", or an error record
    bus,        \* every endpoint call and sleep made so far, in order
    flash,      \* device: flash bytes stored by page writes (address -> byte)
    dead,       \* device: TRUE once it no longer acknowledges anything
    died_at,    \* device: the length of bus when it stopped (-1 before)
    faults,     \* device: transient failures it may still produce
    cli,        \* command line and file: [file, no_verify]
    chip,       \* device: the chip-info record it answers with
    flips,      \* device: flash addresses it answers wrongly on read
    build,      \* "debug" | "release": how integer overflow behaves
    \* ---- the parser on its own (file_ops.rs)
    hex_in,     \* [text, bootloader_start]
    hex_out     \* NotParsed, or the result of parse_hex_file

runVars == <<pc, phase, retries, cmd, rdlen, pos, pagesize, flashsize, data,
             outcome, bus, flash, dead, died_at, faults, cli, chip, flips>>
hexVars == <<hex_in, hex_out>>
vars == <<runVars, build, hexVars>>

----------------------------------------------------------------------------
\* Integer widths

U8 == 256
U16 == 65536

Min(a, b) == IF a < b THEN a ELSE b
Max(a, b) == IF a > b THEN a ELSE b

EmptyFn == [a \in {} |-> 0]

Store(f, a, v) == [x \in (DOMAIN f) \cup {a} |-> IF x = a THEN v ELSE f[x]]

----------------------------------------------------------------------------
\* Images (Vec<u8>)

\* The byte a raw file of the given kind holds at offset a.
FillByte(fill, a) ==
    IF fill = "ff" THEN 255
    ELSE (a + (a \div 256) + 7 * (a \div 65536) + 1) % 256

ImgByte(img, a) ==
    IF a \in DOMAIN img.at THEN img.at[a] ELSE FillByte(img.fill, a)

\* img[from .. from+n) as a sequence
ImgSlice(img, from, n) == [i \in 1..n |-> ImgByte(img, from + i - 1)]

NoImage == [len |-> -1, at |-> EmptyFn, fill |-> "none"]

----------------------------------------------------------------------------
\* Text

HexChars == <<"0", "1", "2", "3", "4", "5", "6", "7",
              "8", "9", "A", "B", "C", "D", "E", "F">>

\* char::to_digit(16); -1 when c is no hexadecimal digit
to_digit(c) ==
    CASE c = "0" -> 0  [] c = "1" -> 1  [] c = "2" -> 2  [] c = "3" -> 3
      [] c = "4" -> 4  [] c = "5" -> 5  [] c = "6" -> 6  [] c = "7" -> 7
      [] c = "8" -> 8  [] c = "9" -> 9
      [] c \in {"A", "a"} -> 10  [] c \in {"B", "b"} -> 11
      [] c \in {"C", "c"} -> 12  [] c \in {"D", "d"} -> 13
      [] c \in {"E", "e"} -> 14  [] c \in {"F", "f"} -> 15
      [] OTHER -> -1

RECURSIVE DigitsValue(_)
DigitsValue(ds) ==
    IF ds = <<>> THEN 0
    ELSE 16 * DigitsValue(SubSeq(ds, 1, Len(ds) - 1)) + to_digit(ds[Len(ds)])

\* uN::from_str_radix(s, 16) for an unsigned type of the given modulus:
\* the value, or -1 for Err (empty, a lone sign, a non-digit, too large).
\* A leading "+" is accepted.
from_str_radix(s, modulus) ==
    LET digits == IF Len(s) > 0 /\ s[1] = "+" THEN Tail(s) ELSE s
    IN  IF digits = <<>> THEN -1
        ELSE IF \E i \in 1..Len(digits) : to_digit(digits[i]) = -1 THEN -1
        ELSE IF DigitsValue(digits) >= modulus THEN -1
        ELSE DigitsValue(digits)

IsSpace(c) == c \in {" ", "\t", "\r"}

\* str::trim
RECURSIVE trim(_)
trim(s) ==
    IF s = <<>> THEN s
    ELSE IF IsSpace(s[1]) THEN trim(Tail(s))
    ELSE IF IsSpace(s[Len(s)]) THEN trim(SubSeq(s, 1, Len(s) - 1))
    ELSE s

\* str::lines: split at "\n", drop one "\r" before it; no final empty line
RECURSIVE SplitLines(_, _)
SplitLines(text, cur) ==
    IF text = <<>> THEN (IF cur = <<>> THEN <<>> ELSE <<cur>>)
    ELSE IF Head(text) = "\n"
         THEN <<(IF cur # <<>> /\ cur[Len(cur)] = "\r"
                 THEN SubSeq(cur, 1, Len(cur) - 1) ELSE cur)>>
              \o SplitLines(Tail(text), <<>>)
         ELSE SplitLines(Tail(text), Append(cur, Head(text)))

lines(text) == SplitLines(text, <<>>)

----------------------------------------------------------------------------
\* file_ops.rs: parse_hex_file

HexResult(kind, why, addr, last, img) ==
    [kind |-> kind, why |-> why, addr |-> addr, last |-> last, img |-> img]

HexOk(img)   == HexResult("ok", "", -1, -1, img)
HexErr(why)  == HexResult("err", why, -1, -1, NoImage)
HexPanic     == HexResult("panic", "overflow", -1, -1, NoImage)
NotParsed    == HexResult("none", "", -1, -1, NoImage)

\* `address >= bootloader_start`
addr_conflict(address, bootloader_start) == address >= bootloader_start

\* The Err of the address check. Its message formats address, bootloader_start
\* and bootloader_start - 1; the subtraction is u16 arithmetic.
conflict_error(address, bootloader_start, bld) ==
    IF bootloader_start - 1 < 0 /\ bld = "debug" THEN HexPanic
    ELSE HexResult("err", "conflict", address,
                   (bootloader_start - 1) % U16, NoImage)

\* `if target_addr < bootloader_start { result[target_addr] = byte }`
store_byte(result, target_addr, byte, bootloader_start) ==
    IF target_addr < bootloader_start THEN Store(result, target_addr, byte)
    ELSE result

\* The loop over the payload of one Data record, from its i-th byte on.
RECURSIVE data_loop(_, _, _, _, _, _, _)
data_loop(hex_data, address, byte_count, bootloader_start, bld, i, result) ==
    IF i >= byte_count THEN [st |-> "ok", result |-> result]
    ELSE LET byte == from_str_radix(SubSeq(hex_data, 9 + 2 * i, 10 + 2 * i), U8)
         IN  IF byte = -1 THEN [st |-> "err", result |-> result]
             ELSE IF address + i >= U16 /\ bld = "debug"
                  THEN [st |-> "panic", result |-> result]
             ELSE data_loop(hex_data, address, byte_count, bootloader_start, bld,
                            i + 1,
                            store_byte(result, (address + i) % U16, byte,
                                       bootloader_start))

\* `(max_address as usize).min(max_app_size)`
actual_size(max_address, max_app_size) == Min(max_address, max_app_size)

\* `result.truncate(actual_size); Ok(result)`
finish(result, max_address, bootloader_start) ==
    LET n == actual_size(max_address, bootloader_start)
    IN  HexOk([len |-> n,
               at |-> [a \in {x \in DOMAIN result : x < n} |-> result[a]],
               fill |-> "ff"])

RECURSIVE line_loop(_, _, _, _, _)

\* at_eof taking the EndOfFile record for a line to skip
at_eof_skip(ls, bootloader_start, bld, result, max_address) ==
    line_loop(Tail(ls), bootloader_start, bld, result, max_address)

\* An EndOfFile record heads ls: `0x01 => break`
at_eof(ls, bootloader_start, bld, result, max_address) ==
    finish(result, max_address, bootloader_start)

\* The loop over the lines, from the given line on.
line_loop(ls, bootloader_start, bld, result, max_address) ==
    IF ls = <<>> THEN finish(result, max_address, bootloader_start)
    ELSE
    LET line == trim(Head(ls))
        next == line_loop(Tail(ls), bootloader_start, bld, result, max_address)
    IN
    IF line = <<>> \/ line[1] # ":" THEN next
    ELSE
    LET hex_data == Tail(line) IN
    IF Len(hex_data) < 8 THEN next
    ELSE
    LET byte_count  == from_str_radix(SubSeq(hex_data, 1, 2), U8)
        address     == from_str_radix(SubSeq(hex_data, 3, 6), U16)
        record_type == from_str_radix(SubSeq(hex_data, 7, 8), U8)
    IN
    IF byte_count = -1 THEN HexErr("byte_count")
    ELSE IF address = -1 THEN HexErr("address")
    ELSE IF record_type = -1 THEN HexErr("record_type")
    ELSE IF record_type = 0 THEN
        IF Len(hex_data) < 8 + byte_count * 2 THEN next
        ELSE IF addr_conflict(address, bootloader_start)
             THEN conflict_error(address, bootloader_start, bld)
        ELSE
        LET r == data_loop(hex_data, address, byte_count, bootloader_start,
                           bld, 0, result)
        IN  IF r.st = "err" THEN HexErr("data_byte")
            ELSE IF r.st = "panic" THEN HexPanic
            ELSE IF address + byte_count >= U16 /\ bld = "debug" THEN HexPanic
            ELSE line_loop(Tail(ls), bootloader_start, bld, r.result,
                           Max(max_address, (address + byte_count) % U16))
    ELSE IF record_type = 1
         THEN at_eof(ls, bootloader_start, bld, result, max_address)
    ELSE next

\* parse_hex_file(data, Some(bootloader_start)); text is the file read as
\* UTF-8, utf8 tells whether that reading succeeds.
parse_hex_file(utf8, text, bootloader_start, bld) ==
    IF ~utf8 THEN HexErr("utf8")
    ELSE line_loop(lines(text), bootloader_start, bld, EmptyFn, 0)

----------------------------------------------------------------------------
\* HEX inputs

MaxLines == 2

Hex2(n) == <<HexChars[(n \div 16) + 1], HexChars[(n % 16) + 1]>>
Hex4(n) == Hex2(n \div 256) \o Hex2(n % 256)

RECURSIVE HexBytes(_)
HexBytes(bs) == IF bs = <<>> THEN <<>> ELSE Hex2(Head(bs)) \o HexBytes(Tail(bs))

\* A well-formed record line; the checksum is written as 00 (it is not read).
RecLine(byte_count, address, record_type, payload) ==
    <<":">> \o Hex2(byte_count) \o Hex4(address) \o Hex2(record_type)
            \o HexBytes(payload) \o Hex2(0)

\* A Data record line that declares byte_count bytes and ends after the payload
\* given (no checksum), so that the payload can be shorter than declared.
CutLine(byte_count, address, payload) ==
    <<":">> \o Hex2(byte_count) \o Hex4(address) \o Hex2(0) \o HexBytes(payload)

LineSet ==
    { RecLine(1, 0, 0, <<17>>),
      RecLine(2, 0, 0, <<34, 51>>),
      RecLine(2, 3, 0, <<68, 85>>),
      RecLine(0, 2, 0, <<>>),
      RecLine(2, 65534, 0, <<102, 119>>),
      RecLine(3, 65534, 0, <<102, 119, 136>>),
      RecLine(1, 7168, 0, <<153>>),
      RecLine(0, 0, 1, <<>>),
      RecLine(2, 0, 4, <<0, 0>>),
      <<":", "0", "0", "0", "0">>,
      <<":", "0", "G", "0", "0", "0", "0", "0", "0">>,
      CutLine(2, 0, <<170>>),
      CutLine(2, 65535, <<170>>),
      <<":", "0", "1", "0", "0", "0", "1", "0", "0", "G", "G">>,
      <<"x">>,
      <<" ", " ">> \o RecLine(1, 2, 0, <<171>>) \o <<" ", "\r">>,
      <<":", "+", "1", "0", "0", "0", "3", "0", "0", "E", "E">> }

RECURSIVE JoinLines(_)
JoinLines(ls) ==
    IF ls = <<>> THEN <<>> ELSE Head(ls) \o <<"\n">> \o JoinLines(Tail(ls))

HexTexts ==
    { JoinLines(ls) : ls \in UNION { [1..n -> LineSet] : n \in 0..MaxLines } }

\* Texts of three lines: a Data record, an EndOfFile record, any line
EofTexts ==
    { JoinLines(<<d, RecLine(0, 0, 1, <<>>), l>>) :
        d \in {RecLine(2, 0, 0, <<34, 51>>), RecLine(1, 7168, 0, <<153>>)},
        l \in LineSet }

BootStarts == {0, 2, 4, 7168, 65535}

Builds == {"debug", "release"}

----------------------------------------------------------------------------
\* i2c.rs and protocol.rs: constants and commands

WRITE_RETRY_COUNT == 50
WRITE_RETRY_DELAY_MS == 2
CMD_READ_VERSION == 1
CMD_READ_MEMORY == 2
CMD_SWITCH_APPLICATION == 1
CMD_WRITE_MEMORY == 2
BOOTTYPE_BOOTLOADER == 0
BOOTTYPE_APPLICATION == 128
MEMTYPE_CHIPINFO == 0
MEMTYPE_FLASH == 1
READ_BLOCK_SIZE == 128

\* `(pos >> 8) as u8, (pos & 0xFF) as u8`
offset_bytes(p) == <<(p \div 256) % U8, p % U8>>

switch_cmd(app_type) == <<CMD_SWITCH_APPLICATION, app_type>>
version_cmd == <<CMD_READ_VERSION>>
chipinfo_cmd == <<CMD_READ_MEMORY, MEMTYPE_CHIPINFO, 0, 0>>
read_cmd(p) == <<CMD_READ_MEMORY, MEMTYPE_FLASH>> \o offset_bytes(p)

\* write_flash: `let len = remaining.min(self.pagesize as usize)`
page_len(img, p, psize) == Min(img.len - p, psize)

\* write_flash: the command of the page at pos: header, data[pos..pos+len],
\* then `cmd.resize(4 + pagesize, 0xFF)`
page_cmd(img, p, psize) ==
    LET len == page_len(img, p, psize)
        raw == <<CMD_WRITE_MEMORY, MEMTYPE_FLASH>> \o offset_bytes(p)
                 \o ImgSlice(img, p, len)
    IN  [i \in 1..(4 + psize) |-> IF i <= Len(raw) THEN raw[i] ELSE 255]

\* verify_flash: `let len = READ_BLOCK_SIZE.min(expected_data.len() - pos)`
block_len(img, p) == Min(READ_BLOCK_SIZE, img.len - p)

\* The 16-bit offset a memory command carries
CmdOffset(c) == c[3] * 256 + c[4]

----------------------------------------------------------------------------
\* The device behind the endpoint

IsPageWrite(c) ==
    Len(c) > 4 /\ c[1] = CMD_WRITE_MEMORY /\ c[2] = MEMTYPE_FLASH

IsFlashRead(c) ==
    Len(c) = 4 /\ c[1] = CMD_READ_MEMORY /\ c[2] = MEMTYPE_FLASH

\* Flash after the device stored a page: payload byte i at offset + i.
\* Erased bytes (0xFF) are the ones the map does not hold.
dev_store(fl, c) ==
    IF ~IsPageWrite(c) THEN fl
    ELSE LET off == CmdOffset(c)
             n   == Len(c) - 4
             new == {a \in off..(off + n - 1) : c[5 + a - off] # 255}
         IN  [a \in ((DOMAIN fl) \ (off..(off + n - 1))) \cup new |->
                 IF a \in new THEN c[5 + a - off] ELSE fl[a]]

dev_byte(fl, fl_bad, a) ==
    LET v == IF a \in DOMAIN fl THEN fl[a] ELSE 255
    IN  IF a \in fl_bad THEN (v + 1) % U8 ELSE v

\* The bytes the device answers to a read of n bytes after command c
dev_answer(fl, fl_bad, info, c, n) ==
    IF IsFlashRead(c) THEN [i \in 1..n |-> dev_byte(fl, fl_bad, CmdOffset(c) + i - 1)]
    ELSE IF c = chipinfo_cmd THEN info
    ELSE [i \in 1..n |-> 32]

----------------------------------------------------------------------------
\* What went over the endpoint, and the sleeps, in order

Ev(ev, site, hdr, n, ok) ==
    [ev |-> ev, site |-> site, hdr |-> hdr, n |-> n, ok |-> ok]
\* a write attempt: the call site it comes from, the first four bytes of the
\* command, the count of the bytes after them, and whether it was accepted
WriteEv(site, c, ok) ==
    Ev("write", site, SubSeq(c, 1, Min(Len(c), 4)), Len(c) - Min(Len(c), 4), ok)
\* a read attempt: the call site, the command it answers, the buffer length
ReadEv(site, c, n, ok) == Ev("read", site, c, n, ok)
SleepEv(ms) == Ev("sleep", "", <<>>, ms, TRUE)

----------------------------------------------------------------------------
\* Control: where the run continues after an endpoint call

Out(kind, at, addr) == [kind |-> kind, at |-> at, addr |-> addr]
Running == Out("running", "", -1)

Ctl(site, ph, r, c, n, p, o, evs) ==
    [pc |-> site, phase |-> ph, retries |-> r, cmd |-> c, rdlen |-> n,
     pos |-> p, outcome |-> o, evs |-> evs]

\* main returns or exits
Stop(o, evs) == Ctl("done", "none", 0, <<>>, 0, 0, o, evs)

\* write_with_retry is entered: `let mut retries = WRITE_RETRY_COUNT`
write_with_retry(site, c, n, p, evs) ==
    Ctl(site, "write", WRITE_RETRY_COUNT, c, n, p, Running, evs)

\* TwiBootloader::disconnect
disconnect(evs) ==
    write_with_retry("disconnect", switch_cmd(BOOTTYPE_APPLICATION), 0, 0, evs)

\* verify_flash: the loop `while pos < expected_data.len()`, then main goes on
\* to disconnect
verify_loop(img, p, evs) ==
    IF p < img.len
    THEN write_with_retry("verify_read", read_cmd(p), block_len(img, p), p, evs)
    ELSE disconnect(evs)

\* verify_flash is entered: switch_application(BOOTTYPE_BOOTLOADER)
verify_flash(evs) ==
    write_with_retry("verify_switch", switch_cmd(BOOTTYPE_BOOTLOADER), 0, 0, evs)

\* after_write_flash without the verification
after_write_flash_skip(no_verify, evs) == disconnect(evs)

\* main after write_flash returned Ok: `if !cli.no_verify`
after_write_flash(no_verify, evs) ==
    IF ~no_verify THEN verify_flash(evs) ELSE disconnect(evs)

\* write_flash: the loop `while pos < data.len()`
write_loop(img, p, psize, no_verify, evs) ==
    IF p < img.len
    THEN write_with_retry("write_page", page_cmd(img, p, psize), 0, p, evs)
    ELSE after_write_flash(no_verify, evs)

\* verify_flash: `if &buffer[..len] != &expected_data[pos..pos + len]`
verify_compare(img, p, n, buffer, evs) ==
    IF buffer # ImgSlice(img, p, n)
    THEN Stop(Out("err_verify", "verify_flash", p), evs)
    ELSE verify_loop(img, p + n, evs)

ReadSites == {"read_version", "read_chipinfo", "verify_read", "verify_reread"}

\* device.write returned Ok at the given call site
after_write_ok(site, img, p, psize, n, c, no_verify) ==
    CASE site = "connect_switch" ->
            write_with_retry("read_version", version_cmd, 16, 0, <<SleepEv(100)>>)
      [] site \in ReadSites ->
            Ctl(site, "read", 0, c, n, p, Running, <<>>)
      [] site = "write_page" ->
            write_loop(img, p + page_len(img, p, psize), psize, no_verify,
                       <<SleepEv(5)>>)
      [] site = "verify_switch" ->
            verify_loop(img, 0, <<SleepEv(50)>>)
      [] site = "recover_switch" ->
            write_with_retry("verify_reread", read_cmd(p), block_len(img, p), p,
                             <<SleepEv(100)>>)
      [] site = "disconnect" ->
            Stop(Out("ok", "", -1), <<>>)

\* The operation of main a call site belongs to
op_of(site) ==
    CASE site \in {"connect_switch", "read_version", "read_chipinfo"} -> "connect"
      [] site = "write_page" -> "write_flash"
      [] site \in {"verify_switch", "verify_read", "recover_switch", "verify_reread"}
            -> "verify_flash"
      [] site = "disconnect" -> "disconnect"
      [] OTHER -> "main"

\* propagate with the Err of the second write_then_read of a block matched like
\* the first one, so that the recovery is entered again
propagate_again(site, kind, p) ==
    IF site \in {"verify_read", "verify_reread"}
    THEN write_with_retry("recover_switch", switch_cmd(BOOTTYPE_BOOTLOADER), 0, p, <<>>)
    ELSE Stop(Out(kind, op_of(site), -1), <<>>)

\* propagate with main going on to disconnect after a failed operation
propagate_on(site, kind, p) ==
    IF site = "verify_read"
    THEN write_with_retry("recover_switch", switch_cmd(BOOTTYPE_BOOTLOADER), 0, p, <<>>)
    ELSE IF site = "disconnect" THEN Stop(Out(kind, op_of(site), -1), <<>>)
    ELSE disconnect(<<>>)

\* A call returned Err to its caller. verify_flash matches the Err of the first
\* write_then_read of a block (from its write or from its read) and switches
\* back to the bootloader; every other Err is propagated with `?` up to main.
propagate(site, kind, p) ==
    IF site = "verify_read"
    THEN write_with_retry("recover_switch", switch_cmd(BOOTTYPE_BOOTLOADER), 0, p, <<>>)
    ELSE Stop(Out(kind, op_of(site), -1), <<>>)

\* after_write_err giving up one attempt early (`retries == 1`)
after_write_err_early(site, r, c, n, p) ==
    IF r <= 1
    THEN propagate(site, "err_write", p)
    ELSE Ctl(site, "write", r - 1, c, n, p, Running,
             <<SleepEv(WRITE_RETRY_DELAY_MS)>>)

\* after_write_err without the `retries == 0` exit: the loop never returns Err
after_write_err_forever(site, r, c, n, p) ==
    Ctl(site, "write", r, c, n, p, Running, <<SleepEv(WRITE_RETRY_DELAY_MS)>>)

\* device.write returned Err: `if retries == 0 { return Err(..) }`, else
\* `retries -= 1; thread::sleep(..)` and the loop goes round
after_write_err(site, r, c, n, p) ==
    IF r = 0
    THEN propagate(site, "err_write", p)
    ELSE Ctl(site, "write", r - 1, c, n, p, Running,
             <<SleepEv(WRITE_RETRY_DELAY_MS)>>)

\* after_read_err with the read attempted again
after_read_err_again(site, p) == Ctl(site, "read", 0, cmd, rdlen, p, Running, <<>>)

\* device.read returned Err: `.context("Failed to read from I2C device")?`
after_read_err(site, p) == propagate(site, "err_read", p)

\* device.read returned Ok with the buffer filled
after_read_ok(site, img, p, n, buffer, has_file) ==
    CASE site = "read_version" ->
            write_with_retry("read_chipinfo", chipinfo_cmd, 8, 0, <<>>)
      [] site = "read_chipinfo" ->
            IF has_file THEN Ctl("load", "none", 0, <<>>, 0, 0, Running, <<>>)
            ELSE Stop(Out("ok", "", -1), <<>>)
      [] site \in {"verify_read", "verify_reread"} ->
            verify_compare(img, p, n, buffer, <<>>)

----------------------------------------------------------------------------
\* file_ops.rs: the firmware file

\* A file: kind "none" (no FILE argument), "missing" (the path does not exist),
\* "text" (its bytes are the ASCII text given) or "raw" (its bytes are img; a
\* raw file is not valid UTF-8 and does not begin with ':').
File(kind, ext, text, img) ==
    [kind |-> kind, ext |-> ext, utf8 |-> (kind = "text"), text |-> text, img |-> img]

NoFile == File("none", "", <<>>, NoImage)
MissingFile == File("missing", "bin", <<>>, NoImage)
RawFile(ext, n, at, fill) == File("raw", ext, <<>>, [len |-> n, at |-> at, fill |-> fill])
TextFile(ext, text) == File("text", ext, text, NoImage)

Ascii(c) ==
    CASE c = "\t" -> 9  [] c = "\n" -> 10  [] c = "\r" -> 13  [] c = " " -> 32
      [] c = "+" -> 43  [] c = ":" -> 58   [] c = "G" -> 71   [] c = "x" -> 120
      [] c \in {"0", "1", "2", "3", "4", "5", "6", "7", "8", "9"} -> 48 + to_digit(c)
      [] c \in {"A", "B", "C", "D", "E", "F"} -> 55 + to_digit(c)
      [] OTHER -> 87 + to_digit(c)

\* fs::read(path): the bytes of the file
file_bytes(file) ==
    IF file.kind = "raw" THEN file.img
    ELSE [len |-> Len(file.text),
          at |-> [a \in 0..(Len(file.text) - 1) |-> Ascii(file.text[a + 1])],
          fill |-> "ff"]

\* FileFormat::from_extension
from_extension(ext) ==
    IF ext = "hex" THEN "Hex" ELSE IF ext = "bin" THEN "Binary" ELSE "Auto"

\* `data.starts_with(b":")`
starts_with_colon(file) ==
    file.kind = "text" /\ file.text # <<>> /\ file.text[1] = ":"

read_file_with_bootloader_info(file, bootloader_start, bld) ==
    LET format == from_extension(file.ext)
        parsed == parse_hex_file(file.utf8, file.text, bootloader_start, bld)
    IN  IF format = "Binary" THEN HexOk(file_bytes(file))
        ELSE IF format = "Hex" THEN parsed
        ELSE IF starts_with_colon(file) THEN parsed
        ELSE HexOk(file_bytes(file))

\* How main ends when loading the image fails
load_failure(r) ==
    IF r.kind = "panic" THEN Out("panic", "load", -1)
    ELSE IF r.why = "conflict" THEN Out("err_conflict", "load", r.addr)
    ELSE Out("err_parse", "load", -1)

----------------------------------------------------------------------------
\* The run of the tool: one step per endpoint call

MaxStall == 3
MaxLen == 3
MaxPages == 3
MaxFaults == 2

Apply(c, first) ==
    /\ pc' = c.pc
    /\ phase' = c.phase
    /\ retries' = c.retries
    /\ cmd' = c.cmd
    /\ rdlen' = c.rdlen
    /\ pos' = c.pos
    /\ outcome' = c.outcome
    /\ bus' = bus \o first \o c.evs

PageWritesDone ==
    Cardinality({i \in DOMAIN bus :
                    bus[i].ev = "write" /\ bus[i].site = "write_page" /\ bus[i].ok})

\* main up to the first endpoint call: TwiBootloader::new, then connect calls
\* switch_application(BOOTTYPE_BOOTLOADER)
Start ==
    /\ pc = "start"
    /\ Apply(write_with_retry("connect_switch", switch_cmd(BOOTTYPE_BOOTLOADER),
                              0, 0, <<>>), <<>>)
    /\ UNCHANGED <<pagesize, flashsize, data, flash, dead, died_at, faults, cli, chip,
                   flips, build, hexVars>>

\* self.device.write(data) returns Ok
WriteOk ==
    /\ phase = "write"
    /\ ~dead
    /\ ~(pc = "write_page" /\ pagesize = 0 /\ PageWritesDone >= MaxStall)
    /\ Apply(after_write_ok(pc, data, pos, pagesize, rdlen, cmd, cli.no_verify),
             <<WriteEv(pc, cmd, TRUE)>>)
    /\ flash' = dev_store(flash, cmd)
    /\ UNCHANGED <<pagesize, flashsize, data, dead, died_at, faults, cli, chip, flips,
                   build, hexVars>>

\* self.device.write(data) returns Err
WriteFail ==
    /\ phase = "write"
    /\ dead \/ faults > 0
    /\ faults' = IF dead THEN faults ELSE faults - 1
    /\ Apply(after_write_err(pc, retries, cmd, rdlen, pos),
             <<WriteEv(pc, cmd, FALSE)>>)
    /\ UNCHANGED <<pagesize, flashsize, data, flash, dead, died_at, cli, chip, flips,
                   build, hexVars>>

\* parse_chipinfo
chip_pagesize(chipinfo) == chipinfo[4]
\* chip_flashsize with the two bytes read low byte first
chip_flashsize_le(chipinfo) == (chipinfo[6] * 256 + chipinfo[5]) % U16
chip_flashsize(chipinfo) == (chipinfo[5] * 256 + chipinfo[6]) % U16

\* self.device.read(buffer) returns Ok
ReadOk ==
    /\ phase = "read"
    /\ ~dead
    /\ LET buffer == dev_answer(flash, flips, chip, cmd, rdlen)
       IN  /\ Apply(after_read_ok(pc, data, pos, rdlen, buffer,
                                  cli.file.kind # "none"),
                    <<ReadEv(pc, cmd, rdlen, TRUE)>>)
           /\ IF pc = "read_chipinfo"
              THEN /\ pagesize' = chip_pagesize(buffer)
                   /\ flashsize' = chip_flashsize(buffer)
              ELSE UNCHANGED <<pagesize, flashsize>>
    /\ UNCHANGED <<data, flash, dead, died_at, faults, cli, chip, flips, build, hexVars>>

\* self.device.read(buffer) returns Err
ReadFail ==
    /\ phase = "read"
    /\ dead \/ faults > 0
    /\ faults' = IF dead THEN faults ELSE faults - 1
    /\ Apply(after_read_err(pc, pos), <<ReadEv(pc, cmd, rdlen, FALSE)>>)
    /\ UNCHANGED <<pagesize, flashsize, data, flash, dead, died_at, cli, chip, flips,
                   build, hexVars>>

\* main between connect and write_flash: the file is checked, read and parsed,
\* and write_flash is entered
Load ==
    /\ pc = "load"
    /\ IF cli.file.kind = "missing"
       THEN /\ Apply(Stop(Out("exit1", "load", -1), <<>>), <<>>)
            /\ UNCHANGED data
       ELSE LET r == read_file_with_bootloader_info(cli.file, flashsize, build)
            IN  IF r.kind = "ok"
                THEN /\ data' = r.img
                     /\ Apply(write_loop(r.img, 0, pagesize, cli.no_verify, <<>>),
                              <<>>)
                ELSE /\ Apply(Stop(load_failure(r), <<>>), <<>>)
                     /\ UNCHANGED data
    /\ UNCHANGED <<pagesize, flashsize, flash, dead, died_at, faults, cli, chip, flips,
                   build, hexVars>>

\* The device stops acknowledging, for good. A device either fails single
\* calls (faults) or stops; one that stops has not failed a call before.
Die ==
    /\ ~dead
    /\ phase \in {"write", "read"}
    /\ faults = MaxFaults
    /\ dead' = TRUE
    /\ died_at' = Len(bus)
    /\ UNCHANGED <<pc, phase, retries, cmd, rdlen, pos, pagesize, flashsize, data,
                   outcome, bus, flash, faults, cli, chip, flips, build, hexVars>>

----------------------------------------------------------------------------
\* Runs: the command line, the file and the device

\* The chip-info record of a device (signature of an ATtiny84)
ChipInfo(psize, start) ==
    <<30, 147, 12, psize, start \div 256, start % 256, 0, 0>>

Ramp(ext, n) == RawFile(ext, n, EmptyFn, "ramp")

RunFiles ==
    {NoFile, MissingFile}
    \cup {Ramp("bin", n) : n \in 0..MaxLen}
    \cup {Ramp("bin", READ_BLOCK_SIZE + 1), Ramp("other", 1)}
    \cup {TextFile("hex", JoinLines(ls)) :
            ls \in {<<RecLine(2, 0, 0, <<34, 51>>)>>,
                    <<RecLine(1, 7168, 0, <<153>>)>>,
                    <<RecLine(2, 3, 0, <<68, 85>>)>>,
                    <<RecLine(0, 0, 1, <<>>), RecLine(1, 7168, 0, <<153>>)>>}}
    \cup {TextFile("other", JoinLines(ls)) :
            ls \in {<<RecLine(1, 0, 0, <<17>>)>>,
                    <<<<" ">> \o RecLine(1, 2, 0, <<171>>)>>}}

RunChips == {ChipInfo(2, 4), ChipInfo(128, 7168), ChipInfo(0, 4), ChipInfo(1, 0)}

RunFlips == {{}, {1}, {0, READ_BLOCK_SIZE}}

\* The page transactions write_flash needs for the file on the device
\* (0 when the file gives no image or the page size is 0)
PagesNeeded(file, info, bld) ==
    LET r == read_file_with_bootloader_info(file, chip_flashsize(info), bld)
        p == chip_pagesize(info)
    IN  IF file.kind \in {"none", "missing"} \/ r.kind # "ok" \/ p = 0 THEN 0
        ELSE (r.img.len + p - 1) \div p

\* The state after construction: TwiBootloader::new gives pagesize 0 and
\* flashsize 0, nothing has gone over the endpoint
InitRun(file, no_verify, info, fl_bad, bld, budget) ==
    /\ pc = "start" /\ phase = "none" /\ retries = 0 /\ cmd = <<>> /\ rdlen = 0
    /\ pos = 0 /\ pagesize = 0 /\ flashsize = 0 /\ data = NoImage
    /\ outcome = Running /\ bus = <<>> /\ flash = EmptyFn /\ dead = FALSE
    /\ died_at = -1
    /\ faults = budget
    /\ cli = [file |-> file, no_verify |-> no_verify]
    /\ chip = info /\ flips = fl_bad /\ build = bld
    /\ hex_in = [text |-> <<>>, bootloader_start |-> 0] /\ hex_out = NotParsed

\* What the run does not read is left at one value: the flipped addresses when
\* nothing is verified, the build when no text is parsed.
Init ==
    \E file \in RunFiles, no_verify \in BOOLEAN, info \in RunChips,
       fl_bad \in RunFlips, bld \in Builds :
        /\ PagesNeeded(file, info, bld) <= MaxPages
        /\ (no_verify \/ file.kind \in {"none", "missing"}) => fl_bad = {}
        /\ file.kind # "text" => bld = "release"
        /\ InitRun(file, no_verify, info, fl_bad, bld, MaxFaults)

Next == Start \/ WriteOk \/ WriteFail \/ ReadOk \/ ReadFail \/ Load \/ Die

Spec == Init /\ [][Next]_vars

\* The steps of the program (Die is the device's)
Step == Start \/ WriteOk \/ WriteFail \/ ReadOk \/ ReadFail \/ Load

----------------------------------------------------------------------------
\* The parser on its own

RunIdle ==
    /\ pc = "idle" /\ phase = "none" /\ retries = 0 /\ cmd = <<>> /\ rdlen = 0
    /\ pos = 0 /\ pagesize = 0 /\ flashsize = 0 /\ data = NoImage
    /\ outcome = Out("idle", "", -1) /\ bus = <<>> /\ flash = EmptyFn /\ dead = FALSE
    /\ died_at = -1
    /\ faults = 0 /\ cli = [file |-> NoFile, no_verify |-> FALSE]
    /\ chip = <<>> /\ flips = {}

InitParse ==
    /\ RunIdle
    /\ build \in Builds
    /\ hex_in \in [text : HexTexts \cup EofTexts, bootloader_start : BootStarts]
    /\ hex_out = NotParsed

ParseHex ==
    /\ hex_out = NotParsed
    /\ hex_out' = parse_hex_file(TRUE, hex_in.text, hex_in.bootloader_start, build)
    /\ UNCHANGED <<runVars, build, hex_in>>

NextParse == ParseHex

SpecParse == InitParse /\ [][NextParse]_vars

----------------------------------------------------------------------------
\* A run against a device that accepts every write and answers every read

BigLen == 65791

\* A raw image longer than 0xFFFF bytes: erased flash but for two bytes
BigFile == RawFile("bin", BigLen, (0 :> 1) @@ ((BigLen - 1) :> 2), "ff")

\* Another one, erased but for its first byte: the pages written at wrapped
\* offsets leave the flash as it was, and so do not stop the verification
BigErased == RawFile("bin", BigLen, (0 :> 1), "ff")

FlashFiles ==
    {Ramp("bin", n) : n \in (0..MaxLen) \cup {READ_BLOCK_SIZE - 1, READ_BLOCK_SIZE,
                                             READ_BLOCK_SIZE + 1,
                                             2 * READ_BLOCK_SIZE + 1}}

FlashChips == {ChipInfo(p, 7168) : p \in {1, 2, 3, 127, 128, 255}}

FlashFlips == {{}, {0}, {1}, {READ_BLOCK_SIZE}, {1, READ_BLOCK_SIZE + 1}}

InitFlash ==
    \/ \E file \in FlashFiles, no_verify \in BOOLEAN, info \in FlashChips,
          fl_bad \in FlashFlips :
        /\ no_verify => fl_bad = {}
        /\ InitRun(file, no_verify, info, fl_bad, "release", 0)
    \/ \E file \in {BigFile, BigErased} :
          InitRun(file, FALSE, ChipInfo(255, 7168), {}, "release", 0)

NextFlash == Start \/ WriteOk \/ ReadOk \/ Load

SpecFlash == InitFlash /\ [][NextFlash]_vars

----------------------------------------------------------------------------
\* Reading the bus

Last(b) == b[Len(b)]

IsFailedWrite(e) == e.ev = "write" /\ ~e.ok
IsRetrySleep(e) == e = SleepEv(WRITE_RETRY_DELAY_MS)

\* The failed write attempts of one call site that end b, going back over the
\* sleeps between them
InCall(e, site) == (IsFailedWrite(e) /\ e.site = site) \/ IsRetrySleep(e)

CallStart(b, site) ==
    CHOOSE j \in 1..(Len(b) + 1) :
        /\ \A i \in j..Len(b) : InCall(b[i], site)
        /\ j > 1 => ~InCall(b[j - 1], site)

FailedTail(b, site) ==
    Cardinality({i \in CallStart(b, site)..Len(b) : IsFailedWrite(b[i])})

\* write_with_retry has just returned Err: the last attempt failed and no
\* retry follows it
WriteGaveUp ==
    /\ bus # <<>>
    /\ IsFailedWrite(Last(bus))
    /\ \/ outcome.kind = "err_write"
       \/ pc = "recover_switch" /\ Last(bus).site = "verify_read"

----------------------------------------------------------------------------
\* C1 (as stated): write_with_retry returns an error only after exactly 50
\* write attempts on the endpoint.
C1_Exactly50Attempts ==
    WriteGaveUp => FailedTail(bus, Last(bus).site) = WRITE_RETRY_COUNT

\* C1 (amended): when write_with_retry returns an error, the endpoint has seen
\* exactly 51 attempts of the call (the first and 50 retries), all of the same
\* command and all failed, with one sleep of 2 ms between each two of them and
\* none after the last.
C1_Attempts ==
    WriteGaveUp =>
        LET n == Len(bus)
            k == 2 * (WRITE_RETRY_COUNT + 1) - 1
        IN  /\ n >= k
            /\ \A i \in 1..k :
                  IF i % 2 = 1
                  THEN bus[n - k + i] = Last(bus)
                  ELSE bus[n - k + i] = SleepEv(2)
            /\ n > k => ~IsRetrySleep(bus[n - k])
            /\ FailedTail(bus, Last(bus).site) = 51

\* C1 witness: the device stopped acknowledging and a write_with_retry call
\* gave up
C1_Witness == dead /\ WriteGaveUp /\ outcome.kind = "err_write"

----------------------------------------------------------------------------
\* The page-write transactions the device accepted, in order
PageEvents(b) ==
    SelectSeq(b, LAMBDA e : e.ev = "write" /\ e.site = "write_page" /\ e.ok)

\* write_flash has returned Ok
WriteFlashReturned ==
    /\ data # NoImage
    /\ \/ pc \in {"verify_switch", "verify_read", "recover_switch",
                  "verify_reread", "disconnect"}
       \/ pc = "done" /\ outcome.at # "write_flash"

\* The payload of the page at offset p: the bytes of the image, then 0xFF
PagePayload(img, p, psize) ==
    [i \in 1..psize |-> IF p + i - 1 < img.len THEN ImgByte(img, p + i - 1)
                        ELSE 255]

\* C2 (as stated): for every image of length L and every page size P >= 1,
\* write_flash issues exactly ceil(L/P) page transactions in increasing order;
\* the k-th carries offset k*P and exactly P payload bytes, the bytes of the
\* image from k*P on followed by 0xFF padding; an empty image issues none.
C2_Pages ==
    (data # NoImage /\ pagesize >= 1) =>
        LET pe   == PageEvents(bus)
            need == (data.len + pagesize - 1) \div pagesize
        IN  /\ Len(pe) <= need
            /\ \A k \in 1..Len(pe) :
                  /\ CmdOffset(pe[k].hdr) = (k - 1) * pagesize
                  /\ pe[k].n = pagesize
            /\ pc = "write_page" =>
                  /\ Len(cmd) = 4 + pagesize
                  /\ CmdOffset(cmd) = Len(pe) * pagesize
                  /\ SubSeq(cmd, 5, Len(cmd))
                        = PagePayload(data, Len(pe) * pagesize, pagesize)
            /\ WriteFlashReturned => Len(pe) = need

\* The lowest address at which the device's answer differs from the image
FirstDifference ==
    LET diff == {a \in 0..(data.len - 1) :
                    dev_byte(flash, flips, a) # ImgByte(data, a)}
    IN  IF diff = {} THEN -1
        ELSE CHOOSE a \in diff : \A b \in diff : a <= b

\* C3 (as stated): when every block is read successfully and the device
\* content differs from the expected buffer, verify_flash fails with a
\* verification error that names the lowest address at which they differ.
C3_NamesFirstDifference ==
    outcome.kind = "err_verify" => outcome.addr = FirstDifference

\* C4 (as stated): against a device that stores every page at its offset and
\* answers every read with the stored bytes, and a transport that never
\* fails, write_flash(data) followed by verify_flash(data) succeeds for every
\* image and every page size >= 1.
C4_RoundTrip ==
    (pc = "done" /\ data # NoImage /\ pagesize >= 1 /\ ~cli.no_verify
        /\ flips = {} /\ faults = 0 /\ ~dead)
    => outcome.kind = "ok"

----------------------------------------------------------------------------
\* The records of a HEX text, read line by line without reference to the
\* parser: what a line is, whatever came before it

Rec(kind, address, byte_count, decodes) ==
    [kind |-> kind, address |-> address, byte_count |-> byte_count,
     decodes |-> decodes]

\* "skip": not a record, too short, a type other than Data and EndOfFile, or a
\* Data record whose payload is not fully present; "bad": a header field that
\* is not hexadecimal; "eof"; "data": a complete Data record (decodes: every
\* payload byte is hexadecimal)
RecordOf(l) ==
    LET t == trim(l) IN
    IF t = <<>> \/ t[1] # ":" \/ Len(t) < 9 THEN Rec("skip", 0, 0, TRUE)
    ELSE LET byte_count  == from_str_radix(SubSeq(t, 2, 3), U8)
             address     == from_str_radix(SubSeq(t, 4, 7), U16)
             record_type == from_str_radix(SubSeq(t, 8, 9), U8)
         IN  IF byte_count = -1 \/ address = -1 \/ record_type = -1
                 THEN Rec("bad", 0, 0, FALSE)
             ELSE IF record_type = 1 THEN Rec("eof", address, byte_count, TRUE)
             ELSE IF record_type # 0 THEN Rec("skip", address, byte_count, TRUE)
             ELSE IF Len(t) < 9 + 2 * byte_count
                 THEN Rec("skip", address, byte_count, TRUE)
             ELSE Rec("data", address, byte_count,
                      \A i \in 0..(byte_count - 1) :
                          from_str_radix(SubSeq(t, 10 + 2 * i, 11 + 2 * i), U8) # -1)

Records(text) == [k \in DOMAIN lines(text) |-> RecordOf(lines(text)[k])]

\* The Data records parse processes: the complete ones before the first
\* EndOfFile record
Processed(recs) ==
    {k \in DOMAIN recs :
        /\ recs[k].kind = "data"
        /\ \A j \in 1..(k - 1) : recs[j].kind # "eof"}

\* Record k is reached with everything before it taken in without error: the
\* lines before it are skipped lines or Data records that decode, lie wholly
\* in 0..0xFFFF and start below bootloader_start
ReachedClean(recs, k, bootloader_start) ==
    \A j \in 1..(k - 1) :
        \/ recs[j].kind = "skip"
        \/ /\ recs[j].kind = "data"
           /\ recs[j].decodes
           /\ recs[j].address < bootloader_start
           /\ recs[j].address + recs[j].byte_count < U16

\* C5 (as stated): if any byte of the target range of a processed Data record
\* lies at or above bootloader_start, parse does not return an image: it never
\* returns one after dropping bytes of a record that crosses the boundary.
C5_NoTruncation ==
    hex_out # NotParsed =>
        LET recs == Records(hex_in.text) IN
        \A k \in Processed(recs) :
            (/\ recs[k].byte_count > 0
             /\ recs[k].address + recs[k].byte_count > hex_in.bootloader_start)
            => hex_out.kind # "ok"

\* The file of the run is parsed as HEX text
ParsedAsHex(file) ==
    /\ file.kind = "text"
    /\ \/ file.ext = "hex"
       \/ file.ext # "bin" /\ file.text # <<>> /\ file.text[1] = ":"

\* main has loaded the file, or has failed to
Loaded == data # NoImage \/ outcome.at = "load"

\* C6 (as stated): whenever parse processes a complete Data record whose
\* address is >= bootloader_start, parse returns the address-conflict error
\* naming that address, returns no image, and no flash-page write transaction
\* is sent to the device.
C6_AddressConflict ==
    (Loaded /\ ParsedAsHex(cli.file)) =>
        LET recs == Records(cli.file.text) IN
        \A k \in DOMAIN recs :
            (/\ recs[k].kind = "data"
             /\ recs[k].address >= flashsize
             /\ ReachedClean(recs, k, flashsize))
            => /\ outcome = Out("err_conflict", "load", recs[k].address)
               /\ data = NoImage
               /\ \A i \in DOMAIN bus : bus[i].site # "write_page"

\* M: the maximum of address + byte_count over the processed Data records,
\* 0 when there is none
MaxWritten(recs) ==
    LET ends == {recs[k].address + recs[k].byte_count : k \in Processed(recs)}
    IN  IF ends = {} THEN 0 ELSE CHOOSE m \in ends : \A e \in ends : e <= m

\* C7 (as stated): for every HEX input that parse accepts and every
\* bootloader_start, the length of the returned image is
\* min(M, bootloader_start); an input without Data records gives a
\* zero-length image.
C7_Length ==
    hex_out.kind = "ok" =>
        hex_out.img.len
            = Min(MaxWritten(Records(hex_in.text)), hex_in.bootloader_start)

\* C8 (as stated): in every run that flashes a file, HEX or raw binary, the
\* image handed to write_flash is no longer than the bootloader_start the
\* device reported at connect: no page write is issued for a longer image.
C8_ImageBelowBootloader ==
    (data # NoImage \/ \E i \in DOMAIN bus : bus[i].site = "write_page")
    => data.len <= flashsize

----------------------------------------------------------------------------
\* verify_flash on the bus

IsVerifyRead(e, site, ok) == e.ev = "read" /\ e.site = site /\ e.ok = ok

\* The block a flash-read command asks for differs on the device from the image
Mismatch(hdr, n) ==
    \E a \in CmdOffset(hdr)..(CmdOffset(hdr) + n - 1) :
        dev_byte(flash, flips, a) # ImgByte(data, a)

\* The reads of the second write_then_read of the block with the given command,
\* after event i
Rereads(i, hdr) ==
    {j \in (i + 1)..Len(bus) :
        bus[j].ev = "read" /\ bus[j].site = "verify_reread" /\ bus[j].hdr = hdr}

\* C9: in verify_flash, when the read of a block fails, the client enters one
\* recovery cycle for that block: the next thing it sends is the
\* bootloader-mode switch, and once the switch is accepted it sends the same
\* read command again (same offset, same length) and reads once more, exactly
\* once; a failure of that second read ends verify_flash with an error and
\* nothing further is sent. A block read successfully whose content
\* mismatches ends verify_flash with the verification error at once: it is
\* never read again and no switch follows it.
C9_OneRecovery ==
    \A i \in DOMAIN bus :
        \* the first read of a block fails: the switch is sent next
        /\ IsVerifyRead(bus[i], "verify_read", FALSE) =>
              /\ bus[i].n = block_len(data, CmdOffset(bus[i].hdr))
              /\ IF i < Len(bus)
                 THEN /\ bus[i + 1].ev = "write"
                      /\ bus[i + 1].site = "recover_switch"
                      /\ bus[i + 1].hdr = switch_cmd(BOOTTYPE_BOOTLOADER)
                 ELSE /\ pc = "recover_switch" /\ phase = "write"
                      /\ cmd = switch_cmd(BOOTTYPE_BOOTLOADER)
              /\ Cardinality(Rereads(i, bus[i].hdr)) <= 1
              /\ pc = "done" =>
                    \/ Cardinality(Rereads(i, bus[i].hdr)) = 1
                    \/ outcome = Out("err_write", "verify_flash", -1)
        \* the second transaction of a block repeats the failed one, after an
        \* accepted switch
        /\ bus[i].site = "verify_reread" =>
              \E f \in 1..(i - 1) :
                  /\ bus[f].site = "verify_read" /\ ~bus[f].ok
                  /\ bus[f].hdr = bus[i].hdr
                  /\ bus[i].ev = "read" =>
                        bus[i].n = block_len(data, CmdOffset(bus[i].hdr))
                  /\ \E m \in (f + 1)..(i - 1) :
                        /\ bus[m].site = "recover_switch" /\ bus[m].ok
                        /\ bus[m].hdr = switch_cmd(BOOTTYPE_BOOTLOADER)
                  /\ \A m \in (f + 1)..(i - 1) :
                        /\ bus[m].ev # "read"
                        /\ bus[m].site \in {"recover_switch", "verify_reread", ""}
        \* an accepted second command is followed by the one read
        /\ (bus[i].ev = "write" /\ bus[i].site = "verify_reread" /\ bus[i].ok) =>
              IF i < Len(bus)
              THEN bus[i + 1].ev = "read" /\ bus[i + 1].site = "verify_reread"
              ELSE pc = "verify_reread" /\ phase = "read" /\ cmd = bus[i].hdr
        \* the second read fails: verify_flash returns the error
        /\ IsVerifyRead(bus[i], "verify_reread", FALSE) =>
              /\ i = Len(bus)
              /\ pc = "done"
              /\ outcome = Out("err_read", "verify_flash", -1)
        \* a block that was read is not asked for again, and no recovery follows
        /\ (bus[i].ev = "read" /\ bus[i].site \in {"verify_read", "verify_reread"}
                /\ bus[i].ok) =>
              /\ \A m \in (i + 1)..Len(bus) : bus[m].hdr # bus[i].hdr
              /\ i < Len(bus) => bus[i + 1].site # "recover_switch"
              /\ Mismatch(bus[i].hdr, bus[i].n) =>
                    /\ i = Len(bus)
                    /\ pc = "done"
                    /\ outcome = Out("err_verify", "verify_flash",
                                     CmdOffset(bus[i].hdr))

\* C9 witness: the first read of a block failed, the switch was accepted, the
\* command was sent again and the second read failed too
C9_Witness ==
    /\ Len(bus) > 0
    /\ IsVerifyRead(Last(bus), "verify_reread", FALSE)
    /\ \E i \in DOMAIN bus :
          IsVerifyRead(bus[i], "verify_read", FALSE) /\ bus[i].hdr = Last(bus).hdr

----------------------------------------------------------------------------
\* A device that never acknowledges

\* Runs of raw binary files in which the device may stop acknowledging at any
\* endpoint call
DeadFiles ==
    {NoFile, Ramp("bin", 1), Ramp("bin", MaxLen), Ramp("bin", READ_BLOCK_SIZE + 1)}

InitDead ==
    \E file \in DeadFiles, no_verify \in BOOLEAN, info \in RunChips :
        /\ PagesNeeded(file, info, "release") <= MaxPages
        /\ InitRun(file, no_verify, info, {}, "release", MaxFaults)

\* The program is one thread that always takes its next step
FairDead == InitDead /\ [][Next]_vars /\ WF_vars(Step)

\* The endpoint attempts made since the device stopped acknowledging
AttemptsSinceDeath ==
    Cardinality({i \in (died_at + 1)..Len(bus) : bus[i].ev \in {"write", "read"}})

\* The most attempts one operation makes on such a device: two exhausted
\* write_with_retry calls (verify_flash: the read command, then the switch)
MaxAttempts == 2 * (WRITE_RETRY_COUNT + 1)

\* The operation in progress when the device stopped: the one that made the
\* first attempt after that
OperationAtDeath == op_of(bus[died_at + 1].site)

\* C10: once the device stops acknowledging, the operation in progress, be it
\* connect, write_flash, verify_flash or disconnect, ends, with an error, after
\* at most 2 * 51 endpoint attempts: none blocks or loops forever.
C10_Terminates ==
    /\ [](dead => AttemptsSinceDeath <= MaxAttempts)
    /\ []((dead /\ pc = "done") =>
            /\ outcome.kind \in {"err_write", "err_read"}
            /\ outcome.at = OperationAtDeath
            /\ OperationAtDeath \in
                  {"connect", "write_flash", "verify_flash", "disconnect"})
    /\ dead ~> (pc = "done")

\* C10 witness: the device stopped acknowledging during verify_flash, which
\* gave up after the two exhausted calls
C10_Witness ==
    /\ dead /\ pc = "done" /\ outcome.at = "verify_flash"
    /\ AttemptsSinceDeath = MaxAttempts

----------------------------------------------------------------------------
\* The order of the run on the bus

\* The stage of main a call site belongs to (0 for a sleep)
Stage(site) ==
    CASE site \in {"connect_switch", "read_version", "read_chipinfo"} -> 1
      [] site = "write_page" -> 2
      [] site \in {"verify_switch", "verify_read", "recover_switch", "verify_reread"}
            -> 3
      [] site = "disconnect" -> 4
      [] OTHER -> 0

\* The chip-info record was read before event i
ChipInfoReadBefore(i) ==
    \E j \in 1..(i - 1) :
        bus[j].ev = "read" /\ bus[j].ok /\ bus[j].hdr = chipinfo_cmd

\* Every block of the image was read and equals the image
VerificationSucceeded ==
    \A p \in {q \in 0..(data.len - 1) : q % READ_BLOCK_SIZE = 0} :
        \E j \in DOMAIN bus :
            /\ bus[j].ev = "read" /\ bus[j].ok
            /\ bus[j].hdr = read_cmd(p)
            /\ bus[j].n = block_len(data, p)
            /\ ~Mismatch(bus[j].hdr, bus[j].n)

\* C11: the transactions of a run are ordered connect, page writes,
\* verification reads (unless --no-verify), disconnect. No page write is sent
\* before the chip-info record was read; the application-mode switch
\* (0x01, 0x80) is sent only by disconnect, after all pages were written and,
\* when verification is enabled, verification succeeded; nothing follows the
\* accepted application-mode switch; without a file only the connect
\* transactions are sent.
C11_Order ==
    /\ \A i \in DOMAIN bus :
          \* stage by stage; a sleep stands between two transactions only
          /\ \A j \in {i + 1, i + 2} \cap DOMAIN bus :
                (Stage(bus[i].site) > 0 /\ Stage(bus[j].site) > 0)
                => Stage(bus[i].site) <= Stage(bus[j].site)
          /\ (i < Len(bus) /\ bus[i].ev = "sleep") => bus[i + 1].ev # "sleep"
          /\ bus[i].site = "write_page" =>
                /\ ChipInfoReadBefore(i)
                /\ bus[i].hdr[1] = CMD_WRITE_MEMORY /\ bus[i].hdr[2] = MEMTYPE_FLASH
          /\ (bus[i].site = "disconnect"
                \/ (bus[i].ev = "write"
                       /\ bus[i].hdr = switch_cmd(BOOTTYPE_APPLICATION))) =>
                /\ bus[i].site = "disconnect" /\ bus[i].ev = "write"
                /\ bus[i].hdr = switch_cmd(BOOTTYPE_APPLICATION)
                /\ bus[i].ok => (i = Len(bus) /\ pc = "done")
    /\ (\E i \in DOMAIN bus : bus[i].site = "disconnect") =>
          /\ data # NoImage
          /\ data.len > 0 => pagesize >= 1
          /\ data.len > 0 =>
                Len(PageEvents(bus)) = (data.len + pagesize - 1) \div pagesize
          /\ IF cli.no_verify
             THEN \A j \in DOMAIN bus : Stage(bus[j].site) # 3
             ELSE VerificationSucceeded
    /\ cli.file.kind = "none" =>
          \A i \in DOMAIN bus : Stage(bus[i].site) \in {0, 1}

\* C11 witness: a file was written in several pages, verified and the
\* application-mode switch was accepted
C11_Witness ==
    /\ outcome.kind = "ok" /\ ~cli.no_verify
    /\ Len(PageEvents(bus)) >= 2
    /\ Last(bus) = WriteEv("disconnect", switch_cmd(BOOTTYPE_APPLICATION), TRUE)

----------------------------------------------------------------------------
\* Errors end the run

\* The file was to be loaded and gave no image
LoadFailed ==
    /\ cli.file.kind # "none"
    /\ pc # "load"
    /\ ChipInfoReadBefore(Len(bus) + 1)
    /\ data = NoImage

\* C12: if connect, the loading of the image, write_flash or verify_flash
\* returns an error, the run ends at once: the failed call is the last thing
\* on the bus, and the application-mode switch of disconnect is never sent.
C12_AbortsAtOnce ==
    /\ \A i \in DOMAIN bus :
          \* a read that fails outside the first read of a verified block
          /\ (bus[i].ev = "read" /\ ~bus[i].ok /\ bus[i].site # "verify_read") =>
                /\ i = Len(bus)
                /\ pc = "done"
                /\ outcome = Out("err_read", op_of(bus[i].site), -1)
          \* a failed write that is not retried
          /\ (IsFailedWrite(bus[i]) /\ bus[i].site # "verify_read"
                /\ (i = Len(bus) \/ ~IsRetrySleep(bus[i + 1]))) =>
                /\ i = Len(bus)
                /\ pc = "done"
                /\ outcome = Out("err_write", op_of(bus[i].site), -1)
    /\ LoadFailed =>
          /\ pc = "done"
          /\ outcome.at = "load"
          /\ outcome.kind \in {"exit1", "panic", "err_conflict", "err_parse"}
          /\ Last(bus) = ReadEv("read_chipinfo", chipinfo_cmd, 8, TRUE)
    /\ outcome.kind = "err_verify" =>
          /\ pc = "done"
          /\ Last(bus).ev = "read" /\ Last(bus).ok
          /\ Mismatch(Last(bus).hdr, Last(bus).n)
    /\ (outcome.kind \notin {"running", "ok"} /\ outcome.at # "disconnect") =>
          /\ pc = "done"
          /\ outcome.at \in {"connect", "load", "write_flash", "verify_flash"}
          /\ \A i \in DOMAIN bus :
                /\ bus[i].site # "disconnect"
                /\ bus[i].hdr # switch_cmd(BOOTTYPE_APPLICATION)

\* C12 witness: write_flash failed after a page had been written
C12_Witness ==
    /\ outcome = Out("err_write", "write_flash", -1)
    /\ Len(PageEvents(bus)) >= 1

----------------------------------------------------------------------------
\* write_then_read on the bus

\* C13: in write_then_read the write is retried until its first accepted
\* attempt and then never sent again, and the read is attempted exactly once,
\* right after the accepted write: a failed read is followed neither by
\* another read nor by the same write, and a write that exhausts its retries
\* is followed by no read.
C13_WriteThenRead ==
    \A i \in DOMAIN bus :
        \* a read comes right after the accepted write of its command
        /\ bus[i].ev = "read" =>
              /\ bus[i].site \in ReadSites
              /\ i > 1
              /\ bus[i - 1] = Ev("write", bus[i].site, bus[i].hdr, 0, TRUE)
        \* the accepted write is followed by the read, not by a write
        /\ (bus[i].ev = "write" /\ bus[i].ok /\ bus[i].site \in ReadSites) =>
              IF i < Len(bus)
              THEN /\ bus[i + 1].ev = "read"
                   /\ bus[i + 1].site = bus[i].site
                   /\ bus[i + 1].hdr = bus[i].hdr
              ELSE pc = bus[i].site /\ phase = "read" /\ cmd = bus[i].hdr
        \* a write that failed is tried again after the delay, or the call
        \* has given up: no read follows
        /\ (IsFailedWrite(bus[i]) /\ bus[i].site \in ReadSites /\ i < Len(bus)) =>
              /\ bus[i + 1].ev # "read"
              /\ IsRetrySleep(bus[i + 1]) =>
                    IF i + 1 < Len(bus)
                    THEN bus[i + 2].ev = "write" /\ bus[i + 2].site = bus[i].site
                         /\ bus[i + 2].hdr = bus[i].hdr
                    ELSE pc = bus[i].site /\ phase = "write" /\ cmd = bus[i].hdr
        \* the read is not attempted again, nor is its command sent again
        /\ (bus[i].ev = "read" /\ i < Len(bus)) =>
              /\ bus[i + 1].ev # "read"
              /\ ~(bus[i + 1].site = bus[i].site /\ bus[i + 1].hdr = bus[i].hdr)
        /\ (bus[i].ev = "read" /\ i = Len(bus)) =>
              ~(pc = bus[i].site /\ cmd = bus[i].hdr)

\* C13 witness: the write of read_version was retried and accepted, and the
\* read that followed failed
C13_Witness ==
    /\ Len(bus) > 0
    /\ Last(bus) = ReadEv("read_version", version_cmd, 16, FALSE)
    /\ \E i \in DOMAIN bus : IsFailedWrite(bus[i]) /\ bus[i].site = "read_version"

----------------------------------------------------------------------------
\* The device information of the session

\* TwiBootloader::get_bootloader_start
get_bootloader_start == flashsize

\* C14: get_bootloader_start returns 0 as long as no chip-info record has been
\* read (also after a connect that failed), and from then on the big-endian
\* value of bytes 4-5 of the record; page_size is byte 3 of it. Both stay as
\* they are through write_flash, verify_flash and disconnect, whether these
\* succeed or fail.
C14_BootloaderStart ==
    IF ChipInfoReadBefore(Len(bus) + 1)
    THEN /\ get_bootloader_start = chip[5] * 256 + chip[6]
         /\ pagesize = chip[4]
    ELSE /\ get_bootloader_start = 0
         /\ pagesize = 0

\* C14 witness: verify_flash has failed on a device whose record gives 0x1C00
C14_Witness ==
    /\ outcome.kind = "err_verify"
    /\ get_bootloader_start = 7168

----------------------------------------------------------------------------
\* The bytes of the image parse returns

\* Payload byte i of the record on line l
PayloadByte(l, i) ==
    from_str_radix(SubSeq(trim(l), 10 + 2 * i, 11 + 2 * i), U8)

\* The byte the processed Data records put at offset a: that of the last
\* record with address + i = a, 0xFF when no record covers a
ExpectedByte(recs, ls, a) ==
    LET covers == {k \in Processed(recs) :
                      /\ recs[k].address <= a
                      /\ a < recs[k].address + recs[k].byte_count}
    IN  IF covers = {} THEN 255
        ELSE LET k == CHOOSE m \in covers : \A n \in covers : n <= m
             IN  PayloadByte(ls[k], a - recs[k].address)

\* C15 (as stated): every offset a of the image parse returns holds the
\* payload byte i of the last processed Data record with address + i = a, and
\* 0xFF if no processed record covers a: no byte is stored at another offset.
C15_Bytes ==
    hex_out.kind = "ok" =>
        LET recs == Records(hex_in.text)
            ls   == lines(hex_in.text)
        IN  \A a \in 0..(hex_out.img.len - 1) :
                ImgByte(hex_out.img, a) = ExpectedByte(recs, ls, a)

----------------------------------------------------------------------------
\* The blocks verify_flash asks for

\* The reads of verify_flash, in order
VerifyReads(b) ==
    SelectSeq(b, LAMBDA e : e.ev = "read" /\ e.site \in {"verify_read", "verify_reread"})

\* C16 (as stated): verify_flash first sends the bootloader-mode switch, then
\* asks for the blocks at offsets 0, 128, 256, ... in increasing order, each
\* of min(128, remaining) bytes, covering [0, len) exactly once; it succeeds
\* only if every byte read equals the expected one, and stops reading at the
\* first block that mismatches. (The formula is an invariant: a mismatch in
\* the block read last ends the run, so no earlier block mismatched.)
C16_Blocks ==
    data # NoImage =>
        LET vr == VerifyReads(bus)
            blocks == (data.len + READ_BLOCK_SIZE - 1) \div READ_BLOCK_SIZE
        IN  /\ Len(vr) <= blocks
            /\ \A k \in 1..Len(vr) :
                  /\ vr[k].hdr[1] = CMD_READ_MEMORY /\ vr[k].hdr[2] = MEMTYPE_FLASH
                  /\ CmdOffset(vr[k].hdr) = (k - 1) * READ_BLOCK_SIZE
                  /\ vr[k].n = Min(READ_BLOCK_SIZE, data.len - (k - 1) * READ_BLOCK_SIZE)
            /\ \A i \in DOMAIN bus :
                  bus[i].site = "verify_read" =>
                      /\ i > 2
                      /\ \/ bus[i - 1].site \in {"verify_read", "verify_reread"}
                         \/ /\ IsRetrySleep(bus[i - 1])
                            /\ bus[i - 2].site = "verify_read"
                         \/ /\ bus[i - 1] = SleepEv(50)
                            /\ bus[i - 2] = WriteEv("verify_switch",
                                              switch_cmd(BOOTTYPE_BOOTLOADER), TRUE)
            /\ (Len(vr) > 0 /\ Mismatch(vr[Len(vr)].hdr, vr[Len(vr)].n)) =>
                  pc = "done" /\ outcome.kind = "err_verify"
            /\ (outcome.kind = "ok" /\ ~cli.no_verify) =>
                  /\ Len(vr) = blocks
                  /\ \A a \in 0..(data.len - 1) :
                        dev_byte(flash, flips, a) = ImgByte(data, a)

----------------------------------------------------------------------------
\* The EndOfFile record

\* The line of the first EndOfFile record of a text, 0 when it has none
FirstEof(recs) ==
    LET eofs == {k \in DOMAIN recs : recs[k].kind = "eof"}
    IN  IF eofs = {} THEN 0 ELSE CHOOSE k \in eofs : \A j \in eofs : k <= j

\* C17: an EndOfFile record ends parsing at once: what parse returns for a
\* text is what it returns for the lines before the first EndOfFile record
\* alone; no later line, be it a Data record at or above bootloader_start or
\* a line with undecodable header fields, changes the image or causes an
\* error.
C17_EofEndsParsing ==
    hex_out # NotParsed =>
        LET ls   == lines(hex_in.text)
            recs == Records(hex_in.text)
            k    == FirstEof(recs)
        IN  k > 0 =>
                hex_out = parse_hex_file(TRUE, JoinLines(SubSeq(ls, 1, k - 1)),
                                         hex_in.bootloader_start, build)

\* C17 witness: an image with data was returned for a text whose EndOfFile
\* record is followed by a line that would be an error before it
C17_Witness ==
    /\ hex_out.kind = "ok" /\ hex_out.img.len > 0
    /\ LET recs == Records(hex_in.text)
           k    == FirstEof(recs)
       IN  /\ k > 1 /\ k < Len(recs)
           /\ \/ recs[k + 1].kind = "bad"
              \/ /\ recs[k + 1].kind = "data"
                 /\ recs[k + 1].address >= hex_in.bootloader_start

----------------------------------------------------------------------------
\* The write cursor

\* C18 (as stated): for every non-empty image and every page size a device can
\* report (0..255), each iteration of the loop of write_flash strictly
\* increases the write cursor, so that write_flash terminates: a page
\* transaction that is accepted is followed by a page at a higher cursor, or
\* by the end of the loop.
C18_CursorAdvances ==
    [][(/\ pc = "write_page"
        /\ Len(bus') > Len(bus)
        /\ bus'[Len(bus) + 1].ok)
       => (pc' # "write_page" \/ pos' > pos)]_vars

----------------------------------------------------------------------------
\* The 16-bit fields

\* C19 (as stated): in every page-write and flash-read command the 16-bit
\* big-endian offset field equals the cursor exactly, for every image length
\* the tool can load, raw binary images longer than 0xFFFF bytes included.
C19_OffsetIsCursor ==
    pc \in {"write_page", "verify_read", "verify_reread"} => CmdOffset(cmd) = pos

\* C20 (as stated): the 16-bit address arithmetic of the parser stays within
\* 0..0xFFFF for every bootloader_start and every Data record: parse returns
\* an image or an error value and never aborts, the address-conflict error
\* reports bootloader_start - 1, and no address + i or address + byte_count
\* of a record parse has taken in exceeds 0xFFFF.
C20_NoOverflow ==
    /\ hex_out.kind # "panic"
    /\ hex_out.why = "conflict" => hex_out.last = hex_in.bootloader_start - 1
    /\ hex_out.kind = "ok" =>
          LET recs == Records(hex_in.text)
          IN  \A k \in Processed(recs) :
                  recs[k].address + recs[k].byte_count < U16

====
